---- MODULE Spec2Model ----
(***************************************************************************)
(* State-machine model of mlpack's LMNNFunction                            *)
(* (src/src/mlpack/methods/lmnn/lmnn_function_impl.hpp).                   *)
(*                                                                         *)
(* The objective is modelled on datasets with one row (D = 1), so that a   *)
(* point is an integer, a transformation is a 1x1 matrix <<t>>, and every  *)
(* norm the code takes (arma::norm of a column, arma::norm of a matrix     *)
(* difference) is an absolute value: all arithmetic of the code is exact   *)
(* integer arithmetic.  The regularization weight is the rational          *)
(* num/den; every cost and gradient of the model is the code's value       *)
(* multiplied by den.                                                      *)
(*                                                                         *)
(* Matrices and cubes keep the code's 0-based indices: a k x N matrix is a *)
(* function on (0..k-1) x (0..N-1), the cube evalOld a function on         *)
(* (0..k-1) x (0..k-1) x (0..N-1).                                         *)
(***************************************************************************)
EXTENDS Integers, Sequences, FiniteSets, TLC

\* Largest refresh period `range` a constructed objective is given.
MaxRange == 3
\* Cap of the iteration counter: a run ends once it is reached.
MaxIter == 3
\* Cap of the number of Shuffle() calls in one run.
MaxShuffles == 1

\* arma::datum::nan, the "unset" sentinel of evalOld and transformationOldPoint.
NaN == -1000000

VARIABLES
  phase,                  \* "args" | "ready" | "failed" | "shuffle_threw" | "shuffle_crashed"
  dataset,                \* arma::mat dataset (1 x N)
  labels,                 \* arma::Row<size_t> labels
  k,                      \* size_t k
  regularization,         \* double regularization, as [num, den]
  iteration,              \* size_t iteration
  range,                  \* size_t range
  transformedDataset,     \* arma::mat transformedDataset
  evalOld,                \* arma::cube evalOld (k x k x N)
  maxImpNorm,             \* arma::mat maxImpNorm (k x N)
  transformationOld,      \* arma::mat transformationOld: <<>> (n_elem = 0) or <<t>>
  transformationOldPoint, \* arma::cube transformationOldPoint: <<>> or one slice per point
  targetNeighbors,        \* arma::Mat<size_t> targetNeighbors (k x N)
  impostors,              \* arma::Mat<size_t> impostors (k x N)
  distance,               \* arma::mat distance (k x N)
  pCij,                   \* arma::mat pCij
  norm,                   \* arma::vec norm
  evalAt,                 \* history: the transformation each evalOld cell was written at
  shuffles,               \* history: number of Shuffle() calls so far
  evaluations,            \* history: number of Evaluate and EvaluateWithGradient calls so far
  costBefore,             \* history: after a Shuffle() that came right after a full-dataset
                          \* Evaluate(Identity), the cost that Evaluate returned; NaN otherwise
  out,                    \* history: the last call, its arguments and what it returned
  sweep                   \* the optimizer's batch sweep: [size, begin], the batch size it
                          \* cut [0, N) with and the begin of its next batch; size 0
                          \* when the optimizer calls in no fixed order

vars == <<phase, dataset, labels, k, regularization, iteration, range,
          transformedDataset, evalOld, maxImpNorm, transformationOld,
          transformationOldPoint, targetNeighbors, impostors, distance, pCij,
          norm, evalAt, shuffles, evaluations, costBefore, out, sweep>>

----------------------------------------------------------------------------
(* Arithmetic helpers. *)

Abs(x) == IF x < 0 THEN -x ELSE x

Max(a, b) == IF a < b THEN b ELSE a

Min(a, b) == IF a < b THEN a ELSE b

RECURSIVE SumUpTo(_, _)
\* f[0] + ... + f[n-1]
SumUpTo(f, n) == IF n = 0 THEN 0 ELSE f[n - 1] + SumUpTo(f, n - 1)

\* A row vector given as a tuple, as a function on 0..N-1.
Cols(seq) == [i \in 0..(Len(seq) - 1) |-> seq[i + 1]]

NCols(mat) == Cardinality(DOMAIN mat)

\* n_elem of a matrix or cube
NElem(mat) == Cardinality(DOMAIN mat)

\* The function f itself, with its values computed once instead of at every use.
Vec(f) == f @@ <<>>

----------------------------------------------------------------------------
(* The collaborators of the objective, whose code is outside the modelled  *)
(* file: the metric and the constraint provider.                           *)

\* metric.Evaluate(a, b): the squared Euclidean distance, the MetricType the
\* gradient 2 * L * (sum of outer products) is the derivative of.
MetricEvaluate(a, b) == (a - b) * (a - b)

\* Constraints::Constraints(dataset, labels, k): a usable k and a non-empty dataset.
ConstraintsValid(data, kk) == NCols(data) > 0 /\ kk < NCols(data)

\* Candidate a is nearer to point i than candidate b (ties: the lower index).
Closer(data, i, a, b) ==
  LET da == MetricEvaluate(data[i], data[a])
      db == MetricEvaluate(data[i], data[b])
  IN da < db \/ (da = db /\ a < b)

\* The r-th nearest candidate of point i; 0, the matrix's fill, when there are
\* fewer than r + 1 candidates.
NeighborAt(data, i, cand, r) ==
  IF r < Cardinality(cand)
  THEN CHOOSE c \in cand : Cardinality({x \in cand : Closer(data, i, x, c)}) = r
  ELSE 0

\* constraint.TargetNeighbors(out, dataset, labels): the k nearest points of the same label.
ConstraintTargetNeighbors(data, lab, kk) ==
  Vec([j \in 0..(kk - 1) |-> Vec([i \in DOMAIN data |->
     NeighborAt(data, i, {c \in DOMAIN data : c # i /\ lab[c] = lab[i]}, j)])])

\* constraint.Impostors(out, dataset, labels): the k nearest points of another label.
ConstraintImpostors(data, lab, kk) ==
  Vec([l \in 0..(kk - 1) |-> Vec([i \in DOMAIN data |->
     NeighborAt(data, i, {c \in DOMAIN data : lab[c] # lab[i]}, l)])])

\* The distances constraint.Impostors hands back with the impostors.
ConstraintDistances(data, imp, kk) ==
  Vec([l \in 0..(kk - 1) |-> Vec([i \in DOMAIN data |->
     MetricEvaluate(data[i], data[imp[l][i]])])])

\* constraint.Impostors(..., begin, batchSize): only the columns of the batch are written.
InBatch(i, begin, batchSize) == begin <= i /\ i < begin + batchSize

ConstraintImpostorsBatch(old, data, lab, kk, begin, batchSize) ==
  LET new == ConstraintImpostors(data, lab, kk)
  IN Vec([l \in 0..(kk - 1) |-> Vec([i \in DOMAIN data |->
        IF InBatch(i, begin, batchSize) THEN new[l][i] ELSE old[l][i]])])

ConstraintDistancesBatch(old, data, imp, kk, begin, batchSize) ==
  LET new == ConstraintDistances(data, imp, kk)
  IN Vec([l \in 0..(kk - 1) |-> Vec([i \in DOMAIN data |->
        IF InBatch(i, begin, batchSize) THEN new[l][i] ELSE old[l][i]])])

----------------------------------------------------------------------------
(* Inputs. *)

\* Constructor arguments: dataset, labels and k.  The last three are the
\* configurations the constructor has to refuse.
Configs ==
  { [pts |-> <<0, 0, 1, 1, 3, 5>>, lbl |-> <<0, 0, 0, 1, 1, 1>>, k |-> 2],
    [pts |-> <<0, 0, 1, 1, 3, 5>>, lbl |-> <<0, 0, 0, 1, 1, 1>>, k |-> 6],
    [pts |-> <<0, 0, 1, 1, 3, 5>>, lbl |-> <<0, 0, 0, 1, 1, 1>>, k |-> 7],
    [pts |-> <<>>, lbl |-> <<>>, k |-> 1] }

Regularizations == { [num |-> 1, den |-> 2] }

Ranges == 1..MaxRange

\* The transformations the optimizer passes; Identity is initialPoint.
Transformations == {0, 1, 2}

Identity == 1

----------------------------------------------------------------------------
(* The object as one record, so that a member function is an operator from *)
(* the object (and its arguments) to the object afterwards and its result. *)

Self ==
  [dataset |-> dataset, labels |-> labels, k |-> k,
   regularization |-> regularization, iteration |-> iteration, range |-> range,
   transformedDataset |-> transformedDataset, evalOld |-> evalOld,
   maxImpNorm |-> maxImpNorm, transformationOld |-> transformationOld,
   transformationOldPoint |-> transformationOldPoint,
   targetNeighbors |-> targetNeighbors, impostors |-> impostors,
   distance |-> distance, pCij |-> pCij, norm |-> norm, evalAt |-> evalAt]

Becomes(s) ==
  /\ dataset' = s.dataset
  /\ labels' = s.labels
  /\ k' = s.k
  /\ regularization' = s.regularization
  /\ iteration' = s.iteration
  /\ range' = s.range
  /\ transformedDataset' = s.transformedDataset
  /\ evalOld' = s.evalOld
  /\ maxImpNorm' = s.maxImpNorm
  /\ transformationOld' = s.transformationOld
  /\ transformationOldPoint' = s.transformationOldPoint
  /\ targetNeighbors' = s.targetNeighbors
  /\ impostors' = s.impostors
  /\ distance' = s.distance
  /\ pCij' = s.pCij
  /\ norm' = s.norm
  /\ evalAt' = s.evalAt

\* The record of a call: what was called with which arguments, what it returned,
\* and what it did on the way.
NoCall ==
  [op |-> "none", batch |-> FALSE, t |-> 0, begin |-> 0, batchSize |-> 0,
   cost |-> 0, gradient |-> 0, refreshed |-> FALSE, visited |-> {},
   attempted |-> {}, zeroDiffAccepted |-> {}, exactCached |-> {},
   exactMetric |-> {}, staleCached |-> {}, staleRecomputed |-> {},
   ordering |-> <<>>]

----------------------------------------------------------------------------
(* Precalculate() and the constructor. *)

\* norm(i) = arma::norm(dataset.col(i)); pCij = sum of the outer products of
\* (point - target neighbor).
Precalculate(data, tn, kk) ==
  [norm |-> [i \in DOMAIN data |-> Abs(data[i])],
   pCij |-> SumUpTo([i \in DOMAIN data |->
                       SumUpTo([j \in 0..(kk - 1) |->
                                  (data[i] - data[tn[j][i]]) * (data[i] - data[tn[j][i]])],
                               kk)],
                    NCols(data))]

\* The constructor's body, once the member constraint is built.
Construct ==
  LET tn == ConstraintTargetNeighbors(dataset, labels, k)
      pre == Precalculate(dataset, tn, k)
  IN /\ phase' = "ready"
     /\ iteration' = 0
     /\ transformedDataset' = dataset
     /\ evalOld' = [l \in 0..(k - 1) |-> [j \in 0..(k - 1) |->
                      [i \in DOMAIN dataset |-> NaN]]]
     /\ evalAt' = [l \in 0..(k - 1) |-> [j \in 0..(k - 1) |->
                     [i \in DOMAIN dataset |-> NaN]]]
     /\ maxImpNorm' = [l \in 0..(k - 1) |-> [i \in DOMAIN dataset |-> 0]]
     /\ targetNeighbors' = tn
     /\ impostors' = ConstraintImpostors(dataset, labels, k)
     /\ distance' = [l \in 0..(k - 1) |-> [i \in DOMAIN dataset |-> 0]]
     /\ pCij' = pre.pCij
     /\ norm' = pre.norm
     /\ UNCHANGED <<dataset, labels, k, regularization, range, transformationOld,
                    transformationOldPoint, shuffles, evaluations, costBefore, out,
                    sweep>>

\* The constructor with the member constraint built without its check.
LMNNFunctionUnchecked ==
  /\ phase = "args"
  /\ Construct

\* LMNNFunction::LMNNFunction(dataset, labels, k, regularization, range, metric)
LMNNFunction ==
  /\ phase = "args"
  /\ IF ConstraintsValid(dataset, k)
     THEN Construct
     ELSE /\ phase' = "failed"
          /\ UNCHANGED <<dataset, labels, k, regularization, iteration, range,
                         transformedDataset, evalOld, maxImpNorm, transformationOld,
                         transformationOldPoint, targetNeighbors, impostors,
                         distance, pCij, norm, evalAt, shuffles, evaluations,
                         costBefore, out, sweep>>

----------------------------------------------------------------------------
(* The triplet loop of Evaluate and EvaluateWithGradient.                  *)

\* The refresh test reading the counter after its increment.
RefreshDueAfterIncrement(it, rng) == (it + 1) % rng = 0

\* if (iteration++ % range == 0), read before the increment
RefreshDue(it, rng) == it % rng = 0

\* if (iteration - 1 % range == 0), read after the increment: % binds tighter than -
UseCachedDistance(it, rng) == it - (1 % rng) = 0

\* What the loops of one call carry from cell to cell.
StartLoop(s) ==
  [evalOld |-> s.evalOld, maxImpNorm |-> s.maxImpNorm,
   transformationOldPoint |-> s.transformationOldPoint, evalAt |-> s.evalAt,
   cost |-> 0, cij |-> 0, cil |-> 0,
   visited |-> {}, attempted |-> {}, zeroDiffAccepted |-> {},
   exactCached |-> {}, exactMetric |-> {}]

\* The push term's contribution of triplet (i, targetNeighbors(j, i), impostors(l, i)).
PushTerm(s, i, j, l) ==
  (s.dataset[i] - s.dataset[s.targetNeighbors[j][i]])
      * (s.dataset[i] - s.dataset[s.targetNeighbors[j][i]])
  - (s.dataset[i] - s.dataset[s.impostors[l][i]])
      * (s.dataset[i] - s.dataset[s.impostors[l][i]])

\* The exact eval of cell (l, j, i) on the transformed dataset.
ExactEval(s, i, j, l) ==
  IF UseCachedDistance(s.iteration, s.range)
  THEN MetricEvaluate(s.transformedDataset[i],
                      s.transformedDataset[s.targetNeighbors[j][i]])
       - s.distance[l][i]
  ELSE MetricEvaluate(s.transformedDataset[i],
                      s.transformedDataset[s.targetNeighbors[j][i]])
       - MetricEvaluate(s.transformedDataset[i],
                        s.transformedDataset[s.impostors[l][i]])

\* One pass of the innermost loop's body up to "Update cache eval value":
\* the bound, the exact value when the bound does not settle the cell, the
\* stores into maxImpNorm, evalOld and (batch form) transformationOldPoint.
EvalCell(s, acc, t, batch, transformationDiff, i, j, l) ==
  LET old == acc.evalOld[l][j][i]
      tryBound == NElem(s.transformationOld) # 0 /\ old # NaN
      newMax == Max(acc.maxImpNorm[l][i], s.norm[s.impostors[l][i]])
      bound == old + transformationDiff
                 * (s.norm[s.targetNeighbors[j][i]] + newMax + 2 * s.norm[i])
      exactEval == IF tryBound THEN ~(bound <= -1) ELSE TRUE
      eval == IF exactEval THEN ExactEval(s, i, j, l) ELSE bound
      a1 == [acc EXCEPT
               !.maxImpNorm[l][i] =
                  IF tryBound THEN (IF bound <= -1 THEN newMax ELSE 0) ELSE @,
               !.evalOld[l][j][i] = eval,
               !.evalAt[l][j][i] = t,
               !.visited = @ \cup {<<l, j, i, eval>>},
               !.attempted = IF tryBound THEN @ \cup {<<l, j, i>>} ELSE @,
               !.exactCached =
                  IF exactEval /\ UseCachedDistance(s.iteration, s.range)
                  THEN @ \cup {<<l, j, i>>} ELSE @,
               !.exactMetric =
                  IF exactEval /\ ~UseCachedDistance(s.iteration, s.range)
                  THEN @ \cup {<<l, j, i>>} ELSE @,
               !.zeroDiffAccepted =
                  IF tryBound /\ ~exactEval /\ transformationDiff = 0
                     /\ acc.evalAt[l][j][i] # t
                  THEN @ \cup {<<l, j, i>>} ELSE @]
  IN IF batch THEN [a1 EXCEPT !.transformationOldPoint[i] = t] ELSE a1

RECURSIVE TripletLoop(_, _, _, _, _, _, _, _, _)
\* for (int j = k - 1; j >= 0; j--) for (size_t l = 0, bp = k; l < bp; l++),
\* entered at (j, l)
TripletLoop(s, acc, t, batch, withGradient, transformationDiff, i, j, l) ==
  IF j < 0 THEN acc
  ELSE IF l >= s.k
  THEN TripletLoop(s, acc, t, batch, withGradient, transformationDiff, i, j - 1, 0)
  ELSE LET a1 == EvalCell(s, acc, t, batch, transformationDiff, i, j, l)
           eval == a1.evalOld[l][j][i]
       IN IF eval <= -1
          THEN \* bp = l; break;
               TripletLoop(s, a1, t, batch, withGradient, transformationDiff,
                           i, j - 1, 0)
          ELSE TripletLoop(s,
                           [a1 EXCEPT
                              !.cost = @ + s.regularization.num * (1 + eval),
                              !.cil = IF withGradient
                                      THEN @ + PushTerm(s, i, j, l) ELSE @],
                           t, batch, withGradient, transformationDiff, i, j, l + 1)

\* The cost of point i's target neighbors: (1 - regularization) * eval, summed over j.
PullCost(s, i) ==
  SumUpTo([j \in 0..(s.k - 1) |->
             (s.regularization.den - s.regularization.num)
               * MetricEvaluate(s.transformedDataset[i],
                                s.transformedDataset[s.targetNeighbors[j][i]])],
          s.k)

\* cij += diff * trans(diff), summed over point i's target neighbors
PullTerm(s, i) ==
  SumUpTo([j \in 0..(s.k - 1) |->
             (s.dataset[i] - s.dataset[s.targetNeighbors[j][i]])
               * (s.dataset[i] - s.dataset[s.targetNeighbors[j][i]])],
          s.k)

\* Norm of the change in transformation: against the global snapshot in the
\* full-dataset form, against point i's slice in the batch form; 0 without one.
TransformationDiff(s, acc, t, batch, i) ==
  IF batch
  THEN IF acc.transformationOldPoint[i] # NaN
       THEN Abs(t - acc.transformationOldPoint[i]) ELSE 0
  ELSE IF NElem(s.transformationOld) # 0
       THEN Abs(t - s.transformationOld[1]) ELSE 0

RECURSIVE PointLoop(_, _, _, _, _, _, _)
\* for (size_t i = ...; i < end; i++)
PointLoop(s, acc, t, batch, withGradient, i, end) ==
  IF i >= end THEN acc
  ELSE LET a0 == [acc EXCEPT
                    !.cost = @ + PullCost(s, i),
                    !.cij = IF batch /\ withGradient THEN @ + PullTerm(s, i) ELSE @]
           a1 == TripletLoop(s, a0, t, batch, withGradient,
                             TransformationDiff(s, acc, t, batch, i),
                             i, s.k - 1, 0)
       IN PointLoop(s, a1, t, batch, withGradient, i + 1, end)

----------------------------------------------------------------------------
(* Evaluate and EvaluateWithGradient, full-dataset and batch form.         *)

Transformed(t, data) == Vec([i \in DOMAIN data |-> t * data[i]])

\* transformedDataset = transformation * dataset; if (iteration++ % range == 0)
\* constraint.Impostors(impostors, distance, transformedDataset, labels);
BeginFull(s, t) ==
  LET td == Transformed(t, s.dataset)
      refresh == RefreshDue(s.iteration, s.range)
      imp == IF refresh THEN ConstraintImpostors(td, s.labels, s.k) ELSE s.impostors
  IN [s EXCEPT
        !.transformedDataset = td,
        !.iteration = @ + 1,
        !.impostors = imp,
        !.distance = IF refresh THEN ConstraintDistances(td, imp, s.k) ELSE @]

\* The batch form's prologue: the cube is sized and filled with NaN on first
\* use, and only the batch's impostors are asked for.
BeginBatch(s, t, begin, batchSize) ==
  LET td == Transformed(t, s.dataset)
      refresh == RefreshDue(s.iteration, s.range)
      imp == IF refresh
             THEN ConstraintImpostorsBatch(s.impostors, td, s.labels, s.k,
                                           begin, batchSize)
             ELSE s.impostors
  IN [s EXCEPT
        !.transformationOldPoint =
           IF NElem(@) = 0 THEN [i \in DOMAIN s.dataset |-> NaN] ELSE @,
        !.transformedDataset = td,
        !.iteration = @ + 1,
        !.impostors = imp,
        !.distance = IF refresh
                     THEN ConstraintDistancesBatch(@, td, imp, s.k, begin, batchSize)
                     ELSE @]

\* The object once the loops are done.
EndCall(s1, acc) ==
  [s1 EXCEPT !.evalOld = acc.evalOld, !.maxImpNorm = acc.maxImpNorm,
             !.transformationOldPoint = acc.transformationOldPoint,
             !.evalAt = acc.evalAt]

\* gradient = 2 * transformation * ((1 - regularization) * cij + regularization * cil)
GradientOf(s, t, cij, cil) ==
  2 * t * ((s.regularization.den - s.regularization.num) * cij
           + s.regularization.num * cil)

Result(s, name, batch, t, begin, batchSize, refresh, acc, gradient) ==
  [s |-> s,
   call |-> [NoCall EXCEPT !.op = name, !.batch = batch, !.t = t, !.begin = begin,
                           !.batchSize = batchSize, !.cost = acc.cost,
                           !.gradient = gradient, !.refreshed = refresh,
                           !.visited = acc.visited, !.attempted = acc.attempted,
                           !.zeroDiffAccepted = acc.zeroDiffAccepted,
                           !.exactCached = acc.exactCached,
                           !.exactMetric = acc.exactMetric]]

\* double Evaluate(const arma::mat& transformation)
Evaluate(s, t) ==
  LET s1 == BeginFull(s, t)
      acc == PointLoop(s1, StartLoop(s1), t, FALSE, FALSE, 0, NCols(s.dataset))
  IN Result([EndCall(s1, acc) EXCEPT !.transformationOld = <<t>>],
            "Evaluate", FALSE, t, 0, NCols(s.dataset),
            RefreshDue(s.iteration, s.range), acc, 0)

\* double Evaluate(const arma::mat& transformation, begin, batchSize)
EvaluateBatch(s, t, begin, batchSize) ==
  LET s1 == BeginBatch(s, t, begin, batchSize)
      acc == PointLoop(s1, StartLoop(s1), t, TRUE, FALSE, begin, begin + batchSize)
  IN Result(EndCall(s1, acc), "Evaluate", TRUE, t, begin, batchSize,
            RefreshDue(s.iteration, s.range), acc, 0)

\* double EvaluateWithGradient(const arma::mat& transformation, GradType& gradient)
EvaluateWithGradient(s, t) ==
  LET s1 == BeginFull(s, t)
      acc == PointLoop(s1, StartLoop(s1), t, FALSE, TRUE, 0, NCols(s.dataset))
  IN Result([EndCall(s1, acc) EXCEPT !.transformationOld = <<t>>],
            "EvaluateWithGradient", FALSE, t, 0, NCols(s.dataset),
            RefreshDue(s.iteration, s.range), acc,
            GradientOf(s, t, s.pCij, acc.cil))

\* double EvaluateWithGradient(transformation, begin, gradient, batchSize)
EvaluateWithGradientBatch(s, t, begin, batchSize) ==
  LET s1 == BeginBatch(s, t, begin, batchSize)
      acc == PointLoop(s1, StartLoop(s1), t, TRUE, TRUE, begin, begin + batchSize)
  IN Result(EndCall(s1, acc), "EvaluateWithGradient", TRUE, t, begin, batchSize,
            RefreshDue(s.iteration, s.range), acc,
            GradientOf(s, t, acc.cij, acc.cil))

----------------------------------------------------------------------------
(* Gradient, full-dataset and batch form.                                  *)

RECURSIVE GradientTripletLoop(_, _, _, _, _, _)
\* The loops over j and l of Gradient, entered at (j, l): a cell of evalOld
\* that is not NaN is the eval, any other is computed on transformedDataset.
GradientTripletLoop(s, acc, t, i, j, l) ==
  IF j < 0 THEN acc
  ELSE IF l >= s.k THEN GradientTripletLoop(s, acc, t, i, j - 1, 0)
  ELSE LET exactEval == s.evalOld[l][j][i] = NaN
           eval == IF exactEval
                   THEN MetricEvaluate(s.transformedDataset[i],
                                       s.transformedDataset[s.targetNeighbors[j][i]])
                        - MetricEvaluate(s.transformedDataset[i],
                                         s.transformedDataset[s.impostors[l][i]])
                   ELSE s.evalOld[l][j][i]
           a1 == [acc EXCEPT
                    !.staleCached =
                       IF ~exactEval /\ s.evalAt[l][j][i] # t
                       THEN @ \cup {<<l, j, i>>} ELSE @,
                    !.staleRecomputed =
                       IF exactEval /\ s.transformedDataset # Transformed(t, s.dataset)
                       THEN @ \cup {<<l, j, i>>} ELSE @]
       IN IF eval < -1
          THEN \* bp = l; break;
               GradientTripletLoop(s, a1, t, i, j - 1, 0)
          ELSE GradientTripletLoop(s, [a1 EXCEPT !.cil = @ + PushTerm(s, i, j, l)],
                                   t, i, j, l + 1)

RECURSIVE GradientPointLoop(_, _, _, _, _, _)
GradientPointLoop(s, acc, t, batch, i, end) ==
  IF i >= end THEN acc
  ELSE LET a0 == [acc EXCEPT !.cij = IF batch THEN @ + PullTerm(s, i) ELSE @]
       IN GradientPointLoop(s, GradientTripletLoop(s, a0, t, i, s.k - 1, 0),
                            t, batch, i + 1, end)

StartGradient == [cij |-> 0, cil |-> 0, staleCached |-> {}, staleRecomputed |-> {}]

GradientResult(s, t, batch, begin, batchSize, acc, cij) ==
  [s |-> s,
   call |-> [NoCall EXCEPT !.op = "Gradient", !.batch = batch, !.t = t,
                           !.begin = begin, !.batchSize = batchSize,
                           !.gradient = GradientOf(s, t, cij, acc.cil),
                           !.staleCached = acc.staleCached,
                           !.staleRecomputed = acc.staleRecomputed]]

\* Gradient as a call that counts: the same result, the counter one higher.
GradientCounting(s, t) ==
  LET acc == GradientPointLoop(s, StartGradient, t, FALSE, 0, NCols(s.dataset))
  IN GradientResult([s EXCEPT !.iteration = @ + 1], t, FALSE, 0,
                    NCols(s.dataset), acc, s.pCij)

\* void Gradient(const arma::mat& transformation, GradType& gradient)
Gradient(s, t) ==
  LET acc == GradientPointLoop(s, StartGradient, t, FALSE, 0, NCols(s.dataset))
  IN GradientResult(s, t, FALSE, 0, NCols(s.dataset), acc, s.pCij)

\* void Gradient(transformation, begin, gradient, batchSize)
GradientBatch(s, t, begin, batchSize) ==
  LET acc == GradientPointLoop(s, StartGradient, t, TRUE, begin, begin + batchSize)
  IN GradientResult(s, t, TRUE, begin, batchSize, acc, acc.cij)

----------------------------------------------------------------------------
(* Shuffle.                                                                *)

\* Orderings arma::shuffle may return, of the N! there are: the reversal and
\* the rotation by one.
Orderings(n) ==
  { [i \in 0..(n - 1) |-> n - 1 - i],
    [i \in 0..(n - 1) |-> (i + 1) % n] }

\* The stores of Shuffle() that come before its first use of
\* transformationOldPoint.slice(i): dataset, labels, maxImpNorm and slice 0 of
\* evalOld.
ShuffleUpToCube(s, ordering) ==
  [s EXCEPT
     !.dataset = [i \in DOMAIN s.dataset |-> s.dataset[ordering[i]]],
     !.labels = [i \in DOMAIN s.dataset |-> s.labels[ordering[i]]],
     !.maxImpNorm = [l \in 0..(s.k - 1) |-> [i \in DOMAIN s.dataset |->
                       s.maxImpNorm[l][ordering[i]]]],
     !.evalOld = [l \in 0..(s.k - 1) |-> [j \in 0..(s.k - 1) |->
                    [i \in DOMAIN s.dataset |->
                       IF i = 0 THEN s.evalOld[l][j][ordering[i]]
                       ELSE s.evalOld[l][j][i]]]],
     !.evalAt = [l \in 0..(s.k - 1) |-> [j \in 0..(s.k - 1) |->
                   [i \in DOMAIN s.dataset |->
                      IF i = 0 THEN s.evalAt[l][j][ordering[i]]
                      ELSE s.evalAt[l][j][i]]]]]

\* void Shuffle(), the ordering drawn being `ordering`, on an object whose
\* cube transformationOldPoint has its N slices.
Shuffle(s, ordering) ==
  LET data == [i \in DOMAIN s.dataset |-> s.dataset[ordering[i]]]
      lab == [i \in DOMAIN s.dataset |-> s.labels[ordering[i]]]
  IN [s EXCEPT
        !.dataset = data,
        !.labels = lab,
        !.maxImpNorm = [l \in 0..(s.k - 1) |-> [i \in DOMAIN s.dataset |->
                          s.maxImpNorm[l][ordering[i]]]],
        !.evalOld = [l \in 0..(s.k - 1) |-> [j \in 0..(s.k - 1) |->
                       [i \in DOMAIN s.dataset |-> s.evalOld[l][j][ordering[i]]]]],
        !.evalAt = [l \in 0..(s.k - 1) |-> [j \in 0..(s.k - 1) |->
                      [i \in DOMAIN s.dataset |-> s.evalAt[l][j][ordering[i]]]]],
        !.transformationOldPoint = [i \in DOMAIN s.dataset |->
                                      s.transformationOldPoint[ordering[i]]],
        !.targetNeighbors = ConstraintTargetNeighbors(data, lab, s.k)]

----------------------------------------------------------------------------
(* The state machine: the constructor, then the calls of the optimizer.    *)

\* The batches an optimizer cuts [0, N) into: begin a multiple of the batch
\* size, the last batch as long as what is left.
BatchSizes(n) == {3}

NoSweep == [size |-> 0, begin |-> 0]

Batches(n) ==
  { b \in (0..(n - 1)) \X (1..n) :
      \E size \in BatchSizes(n) : b[1] % size = 0 /\ b[2] = Min(size, n - b[1]) }

Init ==
  /\ phase = "args"
  /\ \E c \in Configs :
       /\ dataset = Cols(c.pts)
       /\ labels = Cols(c.lbl)
       /\ k = c.k
  /\ regularization \in Regularizations
  /\ range \in Ranges
  /\ iteration = 0
  /\ transformedDataset = <<>>
  /\ evalOld = <<>>
  /\ maxImpNorm = <<>>
  /\ transformationOld = <<>>
  /\ transformationOldPoint = <<>>
  /\ targetNeighbors = <<>>
  /\ impostors = <<>>
  /\ distance = <<>>
  /\ pCij = 0
  /\ norm = <<>>
  /\ evalAt = <<>>
  /\ shuffles = 0
  /\ evaluations = 0
  /\ costBefore = NaN
  /\ out = NoCall
  /\ sweep = NoSweep

Returns(r) ==
  /\ Becomes(r.s)
  /\ out' = r.call
  /\ costBefore' = NaN
  /\ UNCHANGED <<phase, shuffles, sweep>>

\* The run goes on until the iteration counter reaches its cap.
Running == phase = "ready" /\ iteration < MaxIter

CallEvaluate ==
  /\ Running
  /\ evaluations' = evaluations + 1
  /\ \E t \in Transformations : \E r \in {Evaluate(Self, t)} : Returns(r)

CallEvaluateBatch ==
  /\ Running
  /\ evaluations' = evaluations + 1
  /\ \E t \in Transformations, b \in Batches(NCols(dataset)) :
       \E r \in {EvaluateBatch(Self, t, b[1], b[2])} : Returns(r)

CallEvaluateWithGradient ==
  /\ Running
  /\ evaluations' = evaluations + 1
  /\ \E t \in Transformations : \E r \in {EvaluateWithGradient(Self, t)} : Returns(r)

CallEvaluateWithGradientBatch ==
  /\ Running
  /\ evaluations' = evaluations + 1
  /\ \E t \in Transformations, b \in Batches(NCols(dataset)) :
       \E r \in {EvaluateWithGradientBatch(Self, t, b[1], b[2])} : Returns(r)

CallGradient ==
  /\ Running
  /\ UNCHANGED evaluations
  /\ \E t \in Transformations : \E r \in {Gradient(Self, t)} : Returns(r)

CallGradientBatch ==
  /\ Running
  /\ UNCHANGED evaluations
  /\ \E t \in Transformations, b \in Batches(NCols(dataset)) :
       \E r \in {GradientBatch(Self, t, b[1], b[2])} : Returns(r)

\* Shuffle() on an object whose cube has its slices.
CallShuffle ==
  /\ Running
  /\ shuffles < MaxShuffles
  /\ NElem(transformationOldPoint) # 0
  /\ \E ordering \in Orderings(NCols(dataset)) :
       /\ \E s \in {Shuffle(Self, ordering)} : Becomes(s)
       /\ out' = [NoCall EXCEPT !.op = "Shuffle", !.ordering = ordering]
  /\ shuffles' = shuffles + 1
  /\ costBefore' = IF out.op = "Evaluate" /\ ~out.batch /\ out.t = Identity
                   THEN out.cost ELSE NaN
  /\ UNCHANGED <<phase, evaluations, sweep>>

\* Shuffle() before any batch evaluation: transformationOldPoint has no slice,
\* and slice(0) is out of bounds.  A build with Armadillo's checks throws
\* there; one without them (ARMA_NO_DEBUG) reads and writes through an
\* invalid slice pointer.  Either way the call does not complete, after its
\* first stores are done.
CallShuffleUnallocated ==
  /\ Running
  /\ shuffles < MaxShuffles
  /\ NElem(transformationOldPoint) = 0
  /\ \E ordering \in Orderings(NCols(dataset)) :
       /\ \E s \in {ShuffleUpToCube(Self, ordering)} : Becomes(s)
       /\ out' = [NoCall EXCEPT !.op = "Shuffle", !.ordering = ordering]
  /\ phase' \in {"shuffle_threw", "shuffle_crashed"}
  /\ shuffles' = shuffles + 1
  /\ UNCHANGED <<evaluations, costBefore, sweep>>

Next ==
  \/ LMNNFunction
  \/ CallEvaluate
  \/ CallEvaluateBatch
  \/ CallEvaluateWithGradient
  \/ CallEvaluateWithGradientBatch
  \/ CallGradient
  \/ CallGradientBatch
  \/ CallShuffle
  \/ CallShuffleUnallocated

Spec == Init /\ [][Next]_vars

----------------------------------------------------------------------------
(* The optimizer sweeping a fixed partition of [0, N) into contiguous      *)
(* batches, one batch-form call per batch, in order, forever.              *)

\* Largest number of batches a sweep cuts the dataset into.
MaxSweepBatches == 3

\* The batch sizes that cut n points into 1 .. MaxSweepBatches equal batches.
SweepSizes(n) == { n \div b : b \in {c \in 1..MaxSweepBatches : n % c = 0} }

\* The counter of a run that never ends, kept finite.  The code reads it only
\* in `iteration++ % range == 0` and in `iteration - 1 % range == 0`, and both
\* read the same from it and from it - range once it >= range + 2.
Fold(it, rng) == IF it >= rng + 2 THEN it - rng ELSE it

SweepInit ==
  /\ phase = "args"
  /\ \E c \in {d \in Configs : ConstraintsValid(Cols(d.pts), d.k)} :
       /\ dataset = Cols(c.pts)
       /\ labels = Cols(c.lbl)
       /\ k = c.k
       /\ \E size \in SweepSizes(Len(c.pts)) : sweep = [size |-> size, begin |-> 0]
  /\ regularization \in Regularizations
  /\ range \in Ranges
  /\ iteration = 0
  /\ transformedDataset = <<>>
  /\ evalOld = <<>>
  /\ maxImpNorm = <<>>
  /\ transformationOld = <<>>
  /\ transformationOldPoint = <<>>
  /\ targetNeighbors = <<>>
  /\ impostors = <<>>
  /\ distance = <<>>
  /\ pCij = 0
  /\ norm = <<>>
  /\ evalAt = <<>>
  /\ shuffles = 0
  /\ evaluations = 0
  /\ costBefore = NaN
  /\ out = NoCall

\* The return of the sweep's call on its batch; the next batch is the one after.
SweepReturns(r) ==
  /\ Becomes([r.s EXCEPT !.iteration = Fold(@, r.s.range)])
  /\ out' = r.call
  /\ evaluations' = Fold(evaluations + 1, range)
  /\ sweep' = [sweep EXCEPT !.begin = (@ + sweep.size) % NCols(dataset)]
  /\ costBefore' = NaN
  /\ UNCHANGED <<phase, shuffles>>

SweepEvaluate ==
  /\ phase = "ready"
  /\ \E t \in Transformations :
       \E r \in {EvaluateBatch(Self, t, sweep.begin, sweep.size)} : SweepReturns(r)

SweepEvaluateWithGradient ==
  /\ phase = "ready"
  /\ \E t \in Transformations :
       \E r \in {EvaluateWithGradientBatch(Self, t, sweep.begin, sweep.size)} :
         SweepReturns(r)

SweepNext ==
  \/ LMNNFunction
  \/ SweepEvaluate
  \/ SweepEvaluateWithGradient

\* The constructor runs, and the sweep never stops: the optimizer makes its
\* next call again and again.  A call is possible in every state after the
\* construction (the guard of a sweep call is phase = "ready" alone), so the
\* second condition is weak fairness of the sweep's calls.
SweepSpec ==
  /\ SweepInit
  /\ [][SweepNext]_vars
  /\ WF_vars(LMNNFunction)
  /\ []<><<SweepEvaluate \/ SweepEvaluateWithGradient>>_vars

----------------------------------------------------------------------------
(* Claims.                                                                 *)

IsEvaluation(call) == call.op \in {"Evaluate", "EvaluateWithGradient"}

C2_EveryCallIncrements ==
  [][out'.op \in {"Evaluate", "EvaluateWithGradient", "Gradient"}
       => iteration' = iteration + 1]_vars

\* C2 amended: the iteration counter is the number of Evaluate and
\* EvaluateWithGradient calls made so far (full or batch); Gradient and
\* Shuffle calls leave it as it is.
C2_CounterCountsEvaluations == iteration = evaluations

\* C2's case: two evaluations, then a Gradient call.
C2_Witness == evaluations = 2 /\ out.op = "Gradient"

\* C3: an Evaluate or EvaluateWithGradient call asks the constraint provider
\* for impostors and distances (of the whole dataset or of its batch, on the
\* dataset transformed by its argument) exactly when the iteration counter
\* before the call is a multiple of range; every other such call, and every
\* Gradient and Shuffle call, leaves impostors and distance as they are.
C3_RefreshEveryRange ==
  [][(phase = "ready" /\ out'.op # "none") =>
       LET due == IsEvaluation(out') /\ iteration % range = 0
           td == Transformed(out'.t, dataset)
           imp == ConstraintImpostors(td, labels, k)
           dist == ConstraintDistances(td, imp, k)
       IN /\ out'.refreshed <=> due
          /\ due => \A l \in 0..(k - 1), i \in DOMAIN dataset :
                      IF InBatch(i, out'.begin, out'.batchSize)
                      THEN /\ impostors'[l][i] = imp[l][i]
                           /\ distance'[l][i] = dist[l][i]
                      ELSE /\ impostors'[l][i] = impostors[l][i]
                           /\ distance'[l][i] = distance[l][i]
          /\ ~due => impostors' = impostors /\ distance' = distance]_vars

\* C3's case: with range = 2, the third counted call has refreshed.
C3_Witness == range = 2 /\ iteration = 3 /\ IsEvaluation(out) /\ out.refreshed

\* C4: for every range, a full-dataset Evaluate(Identity), then Shuffle(), then
\* a full-dataset Evaluate(Identity) again: the second call returns the cost
\* the first returned.
C4_ShufflePreservesCost ==
  [][(costBefore # NaN /\ out.op = "Shuffle" /\ phase = "ready"
        /\ out'.op = "Evaluate" /\ ~out'.batch /\ out'.t = Identity)
       => out'.cost = costBefore]_vars

\* The unpruned reference of Evaluate's cost over the points begin .. begin +
\* batchSize - 1: the pull cost, and for every target-neighbor rank j and every
\* impostor rank l the exact eval on the transformed dataset, clipped.
ReferenceCost(s, begin, batchSize) ==
  SumUpTo([n \in 0..(batchSize - 1) |->
     LET i == begin + n
     IN PullCost(s, i)
        + SumUpTo([j \in 0..(s.k - 1) |->
             SumUpTo([l \in 0..(s.k - 1) |->
                s.regularization.num
                  * Max(0, 1 + MetricEvaluate(s.transformedDataset[i],
                                   s.transformedDataset[s.targetNeighbors[j][i]])
                             - MetricEvaluate(s.transformedDataset[i],
                                   s.transformedDataset[s.impostors[l][i]]))],
                     s.k)],
                  s.k)],
          batchSize)

\* C5: the cost Evaluate returns, accumulated with the breaking-point loop, is
\* the cost of the unpruned reference on the same points, target neighbors and
\* impostors.
C5_PruningPreservesCost ==
  out.op = "Evaluate" => out.cost = ReferenceCost(Self, out.begin, out.batchSize)

\* C6: from any state, EvaluateWithGradient(T) returns the cost that
\* Evaluate(T) returns and the gradient that Gradient(T), called right after
\* that Evaluate(T), returns; full-dataset and batch form alike.
C6_FusedEqualsSeparate ==
  [][(phase = "ready" /\ out'.op = "EvaluateWithGradient") =>
       \A e \in {IF out'.batch
                 THEN EvaluateBatch(Self, out'.t, out'.begin, out'.batchSize)
                 ELSE Evaluate(Self, out'.t)} :
         \A g \in {IF out'.batch
                   THEN GradientBatch(e.s, out'.t, out'.begin, out'.batchSize)
                   ELSE Gradient(e.s, out'.t)} :
           /\ out'.cost = e.call.cost
           /\ out'.gradient = g.call.gradient]_vars

\* C7: Gradient(T) takes a cell of evalOld as the eval of its triplet only when
\* the cell was written by an evaluation at T, and computes every other eval
\* on the dataset transformed by T.
C7_GradientNeverStale ==
  out.op = "Gradient" => (out.staleCached = {} /\ out.staleRecomputed = {})

\* C8: Shuffle() moves, for every column i, the point, its label, its slice of
\* evalOld, its column of maxImpNorm, its slice of transformationOldPoint and
\* its entry of norm from index ordering(i) to index i, so that norm(i) is
\* again the norm of the point stored at column i.
C8_ShuffleOnePermutation ==
  [][(phase = "ready" /\ phase' = "ready" /\ out'.op = "Shuffle") =>
       \A i \in DOMAIN dataset :
         LET p == out'.ordering[i]
         IN /\ dataset'[i] = dataset[p]
            /\ labels'[i] = labels[p]
            /\ \A l \in 0..(k - 1) :
                 /\ maxImpNorm'[l][i] = maxImpNorm[l][p]
                 /\ \A j \in 0..(k - 1) : evalOld'[l][j][i] = evalOld[l][j][p]
            /\ transformationOldPoint'[i] = transformationOldPoint[p]
            /\ norm'[i] = norm[p]
            /\ norm'[i] = Abs(dataset'[i])]_vars

\* C9: a batch Evaluate or EvaluateWithGradient attempts the bound of a cell
\* it visits exactly when the cell holds a value and the cell's point has a
\* slice of transformationOldPoint that is set, whatever transformationOld
\* holds; and it never accepts a bound computed with a transformation change
\* of 0 for a cell that was written at another transformation.
C9_BatchBoundUsesPointSnapshot ==
  [][(phase = "ready" /\ IsEvaluation(out') /\ out'.batch) =>
       /\ out'.attempted =
            { <<c[1], c[2], c[3]>> : c \in
                { v \in out'.visited :
                    /\ evalOld[v[1]][v[2]][v[3]] # NaN
                    /\ NElem(transformationOldPoint) # 0
                    /\ transformationOldPoint[v[3]] # NaN } }
       /\ out'.zeroDiffAccepted = {}]_vars

\* C10: after Evaluate or EvaluateWithGradient returns, every cell the call
\* visited with a value greater than -1 is unset (NaN) and its maxImpNorm
\* entry is 0.
C10_UnprunedCellsInvalidated ==
  IsEvaluation(out) =>
    \A c \in out.visited :
      c[4] > -1 => (evalOld[c[1]][c[2]][c[3]] = NaN /\ maxImpNorm[c[1]][c[3]] = 0)

\* C11: after an Evaluate or EvaluateWithGradient call, every cell of evalOld
\* that holds a value was written at the transformation of the snapshot its
\* next bound is measured against: transformationOld for the full-dataset
\* form, the point's slice of transformationOldPoint for the batch form.
C11_CacheMatchesSnapshot ==
  IsEvaluation(out) =>
    \A l \in 0..(k - 1), j \in 0..(k - 1), i \in DOMAIN dataset :
      evalOld[l][j][i] # NaN =>
        /\ NElem(transformationOld) # 0 => evalAt[l][j][i] = transformationOld[1]
        /\ (NElem(transformationOldPoint) # 0 /\ transformationOldPoint[i] # NaN)
             => evalAt[l][j][i] = transformationOldPoint[i]

\* C12: in a call of Evaluate or EvaluateWithGradient every exact eval takes
\* the cached-distance path (one metric call, minus distance(l, i)) if the
\* call refreshed the impostors, that is if (iteration - 1) % range = 0 with
\* the counter read after its increment, and the two-metric-call path if not.
C12_CachedPathOnRefresh ==
  IsEvaluation(out) =>
    IF (iteration - 1) % range = 0
    THEN out.exactMetric = {}
    ELSE out.exactCached = {}

\* The points of the swept dataset.
SweepPoints == 0..5

\* C13: in a sweep of batch-form calls, for every range and every number of
\* batches, every point is again and again covered by a call that asks for
\* its impostors to be refreshed.
C13_EveryPointRefreshedAgain ==
  \A p \in SweepPoints :
    []<>(IsEvaluation(out) /\ out.batch /\ out.refreshed
           /\ InBatch(p, out.begin, out.batchSize))

\* C14: Shuffle() completes without error in every state after construction,
\* also when no batch-form call has given transformationOldPoint its slices.
C14_ShuffleCompletes == out.op = "Shuffle" => phase = "ready"

====
